---- MODULE Spec2Model ----
(***************************************************************************)
(* CrazyDesk tracker (python-tracker): the work-session handlers of        *)
(* crazydesk_tracker.py over the Firestore work_logs collection            *)
(* (modules/firebase_api.py), the capture executor, scheduler and remote   *)
(* command poller (modules/capture.py) and the activity accumulator        *)
(* (modules/activity.py).                                                  *)
(*                                                                         *)
(* Instants are integers in microseconds (the resolution of a Python       *)
(* datetime and of its isoformat()); the *_ms values of the code are       *)
(* derived from them the way the code derives them.  One user signs in.    *)
(* A handler that runs on one thread without waiting on another thread of  *)
(* the process is one action; a loop body that reads shared state, calls   *)
(* the network and then writes is split at the call.                       *)
(***************************************************************************)
EXTENDS Integers, Sequences, FiniteSets, TLC

\* ------------------------------------------------------------------ bounds
MaxTicks == 2
MaxSessions == 2
MaxTimedSessions == 1
MaxBreaks == 2
MaxLoops == 2
MaxTimers == 2
MaxEvents == 3
MaxCommands == 3
MaxRuns == 2
MaxCaptureLogs == 1
MaxSoloRuns == 1
MaxQueued == 1

\* The amounts (microseconds) by which the wall clock advances between steps.
\* The instant the process starts at, in microseconds since the epoch.
StartInstant == 1500
Steps == {30000000, 90000000}
\* Values of random.random(), in thousandths: the ends and the middle of [0, 1).
RandomSamples == {0, 500, 999}

\* ------------------------------------------------------- program constants
CAPTURE_MIN_MIN == 10
CAPTURE_MAX_MIN == 30
COUNTDOWN_SECONDS == 60
POST_CAPTURE_COOLDOWN_SEC == 120

\* Python's None: no instant, id or count of the model equals it.
None == 0 - 1
NoReport == "<absent>"
AutoReport == "[Auto] App closed without manual checkout"

Reports == {"", "done"}
ProofLinks == {"", "http://proof"}

\* --------------------------------------------------------- Python numerics
\* int(x) of a quotient: truncation toward zero.
TruncDiv(n, d) == IF n >= 0 THEN n \div d ELSE 0 - ((0 - n) \div d)

\* round(n / d) for d > 0: Python 3 rounds a half to the even neighbour.
PyRound(n, d) ==
    LET a == IF n >= 0 THEN n ELSE 0 - n
        q == a \div d
        r == a % d
        m == IF 2 * r < d THEN q
             ELSE IF 2 * r > d THEN q + 1
             ELSE IF q % 2 = 0 THEN q ELSE q + 1
    IN IF n >= 0 THEN m ELSE 0 - m

\* int(dt.timestamp() * 1000) of a stored or current instant.
MsOf(ts) == ts \div 1000

Max0(x) == IF x > 0 THEN x ELSE 0

MinOf(S) == CHOOSE x \in S : \A y \in S : x <= y

VARIABLES
    now, ticks,                 \* wall clock (microseconds), clock advances so far
    phase,                      \* "running" | "quit" (_shutdown_event set) | "exited"
    work_logs,                  \* Firestore work_logs: document id = index
    token,                      \* firebase_api._token and _uid are set
    session_id, check_in_time_ms, is_on_break, break_start_ms,
    total_break_sec, capture_count,
    heartbeat_running, hb,      \* _heartbeat_running, heartbeat loop threads
    activity_running, flushers, \* activity._running, flush loop threads
    mouse_clicks, keystrokes,   \* activity counters
    activity_logs,              \* Firestore activity_logs, as acknowledged
    clicked, typed,             \* events delivered to the listeners so far
    capture_in_progress, countdown_cancel,
    auto_running, auto_timer, timers,
    remote_running, pollers, commands, issued,
    cap, runs, tracker_logs,
    gui_co,                     \* the thread of handle_gui_checkout
    resp, calls                 \* this step's handler response and store calls

clockVars == <<now, ticks>>
sessVars == <<token, session_id, check_in_time_ms, is_on_break, break_start_ms,
              total_break_sec, capture_count>>
hbVars == <<heartbeat_running, hb>>
actFlagVars == <<activity_running, flushers>>
countVars == <<mouse_clicks, keystrokes, activity_logs>>
inputVars == <<clicked, typed>>
lockVars == <<capture_in_progress, countdown_cancel>>
autoVars == <<auto_running, auto_timer, timers>>
remoteVars == <<remote_running, pollers>>
cmdVars == <<commands, issued>>
runVars == <<cap, runs, tracker_logs>>
trackVars == <<hbVars, actFlagVars, lockVars, autoVars, remoteVars>>
obsVars == <<resp, calls>>
guiVars == <<gui_co>>

vars == <<guiVars, clockVars, phase, work_logs, sessVars, trackVars, countVars, inputVars,
          cmdVars, runVars, obsVars>>

LoopIds == 1 .. MaxLoops
TimerIds == 1 .. MaxTimers
HttpThread == <<"http", 0>>
TimerThreads == {<<"timer", i>> : i \in TimerIds}
PollerThreads == {<<"poller", j>> : j \in LoopIds}
Threads == TimerThreads \cup PollerThreads \cup {HttpThread}

\* ------------------------------------------------------------ observations
\* A handler's response, with the report it was given (arg).
NoResp == [op |-> "", arg |-> "", ok |-> FALSE, err |-> "", resumed |-> FALSE, sessionId |-> None]
Resp(op, arg, ok, err, resumed, sid) ==
    [op |-> op, arg |-> arg, ok |-> ok, err |-> err, resumed |-> resumed, sessionId |-> sid]
\* A call to the store: the document it addresses, whether it returned, and for
\* save_activity_log the counts it carries.
Call(op, sid, ok) == [op |-> op, sid |-> sid, ok |-> ok, clicks |-> 0, keys |-> 0]
LogCall(c, k, ok) == [op |-> "save_activity_log", sid |-> None, ok |-> ok, clicks |-> c, keys |-> k]
Made(cs, op) == \E n \in DOMAIN cs : cs[n].op = op
\* A call to the countdown observer or to _play_beep; n: the remaining seconds
\* passed to _on_countdown_tick, else None.
Notice(op, n) == [op |-> op, sid |-> n, ok |-> TRUE, clicks |-> 0, keys |-> 0]

\* A perform_capture call of one thread: where it is, its capture_type, the seconds
\* left of its countdown, and its result (s, c: a screenshot / camera URL came back);
\* why: the return statement that ended it ("busy", "nouid", "cancel", "done").
NoFrame == [pc |-> "none", type |-> "", remaining |-> 0, skipped |-> FALSE,
            flagged |-> FALSE, s |-> FALSE, c |-> FALSE, why |-> ""]
CallFrame(type) == [NoFrame EXCEPT !.pc = "call", !.type = type]

\* A handle_gui_checkout call on its thread: where it is, the report and proof
\* link of the dialog, and what it has read: the session globals it passes to
\* check_out and the breaks that check_out fetched.
NoCheckout == [pc |-> "idle", report |-> "", proof |-> "", sid |-> None, cims |-> 0,
               tbs |-> 0, breaks |-> <<>>]

\* ------------------------------------------------------- tracking lifecycle
\* The module globals that start_tracking / stop_tracking assign, as one value.
Tracking ==
    [capture_in_progress |-> capture_in_progress, countdown_cancel |-> countdown_cancel,
     auto_running |-> auto_running, auto_timer |-> auto_timer, timers |-> timers,
     remote_running |-> remote_running, pollers |-> pollers,
     heartbeat_running |-> heartbeat_running, hb |-> hb,
     activity_running |-> activity_running, flushers |-> flushers]

SetTracking(T) ==
    /\ capture_in_progress' = T.capture_in_progress
    /\ countdown_cancel' = T.countdown_cancel
    /\ auto_running' = T.auto_running
    /\ auto_timer' = T.auto_timer
    /\ timers' = T.timers
    /\ remote_running' = T.remote_running
    /\ pollers' = T.pollers
    /\ heartbeat_running' = T.heartbeat_running
    /\ hb' = T.hb
    /\ activity_running' = T.activity_running
    /\ flushers' = T.flushers

FreeTimer == [st |-> "free", delay |-> 0]
DeadLoop == [pc |-> "dead", arg |-> None, c |-> 0, k |-> 0]
FreshLoop == [pc |-> "loop", arg |-> None, c |-> 0, k |-> 0]

\* threading.Timer.cancel(): a timer that has not fired never runs its callback;
\* one whose callback already runs is not affected.
CancelTimer(tm, ref) ==
    IF ref # None /\ tm[ref].st = "pending" THEN [tm EXCEPT ![ref] = FreeTimer] ELSE tm

FreeTimerIds(tm) == {i \in TimerIds : tm[i].st = "free"}
DeadIds(f) == {i \in LoopIds : f[i].pc = "dead"}

\* threading.Timer(delay, _do_auto_capture).start()
NewTimer(tm, delay) == [tm EXCEPT ![MinOf(FreeTimerIds(tm))] = [st |-> "pending", delay |-> delay]]

\* threading.Thread(target=loop, daemon=True).start()
Spawn(f) == [f EXCEPT ![MinOf(DeadIds(f))] = FreshLoop]

\* A random delay without its minimum.
RandomDelayShortMs(r) == (r * (CAPTURE_MAX_MIN - CAPTURE_MIN_MIN)) * 60

\* _random_delay_sec(), in milliseconds, for random.random() = r / 1000
RandomDelayMs(r) == (CAPTURE_MIN_MIN * 1000 + r * (CAPTURE_MAX_MIN - CAPTURE_MIN_MIN)) * 60

\* first_delay of start_auto_capture, in milliseconds
FirstDelayMs(r) == (3 * 1000 + r * 2) * 60

stop_auto_capture(T) ==
    [T EXCEPT !.auto_running = FALSE,
              !.timers = CancelTimer(T.timers, T.auto_timer),
              !.auto_timer = None]

start_auto_capture(T, r) ==
    LET S == stop_auto_capture(T)
        tm == NewTimer(S.timers, FirstDelayMs(r))
    IN [S EXCEPT !.auto_running = TRUE,
                 !.timers = tm,
                 !.auto_timer = MinOf(FreeTimerIds(S.timers))]

stop_remote_poller(T) == [T EXCEPT !.remote_running = FALSE]

start_remote_poller(T) ==
    LET S == stop_remote_poller(T)
    IN [S EXCEPT !.remote_running = TRUE, !.pollers = Spawn(S.pollers)]

start_all_tracking(T, r) == start_remote_poller(start_auto_capture(T, r))

stop_all_tracking(T) ==
    [stop_remote_poller(stop_auto_capture([T EXCEPT !.countdown_cancel = TRUE]))
        EXCEPT !.capture_in_progress = FALSE]

stop_activity_tracking(T) == [T EXCEPT !.activity_running = FALSE]

start_activity_tracking(T) ==
    LET S == stop_activity_tracking(T)
    IN [S EXCEPT !.activity_running = TRUE, !.flushers = Spawn(S.flushers)]

stop_heartbeat(T) == [T EXCEPT !.heartbeat_running = FALSE]

start_heartbeat(T) ==
    LET S == stop_heartbeat(T)
    IN [S EXCEPT !.heartbeat_running = TRUE, !.hb = Spawn(S.hb)]

start_tracking(T, r) == start_heartbeat(start_activity_tracking(start_all_tracking(T, r)))

stop_tracking(T) == stop_heartbeat(stop_activity_tracking(stop_all_tracking(T)))

\* A start needs a free timer object and a free thread of each loop.
CanStart ==
    /\ FreeTimerIds(CancelTimer(timers, auto_timer)) # {}
    /\ DeadIds(pollers) # {}
    /\ DeadIds(hb) # {}
    /\ DeadIds(flushers) # {}

\* ------------------------------------------------------- activity counters
\* flush_activity(), the part under _lock: read both counters and reset them.
TakeCounts == [c |-> mouse_clicks, k |-> keystrokes]

\* A put-back that overwrites the live counter.
PutBackOverwrite(live, taken) == taken

\* flush_activity(), the except branch: put the taken counts back.
PutBack(live, taken) == live + taken

\* A flush that saves whatever it read.
FlushSavesAlways(c, k) == token

\* flush_activity() whether it goes on to save_activity_log.
FlushSaves(c, k) == (c # 0 \/ k # 0) /\ token

ActivityLog(c, k) == [mouseClicks |-> c, keystrokes |-> k]

\* flush_activity() run to its end on the calling thread; ok: save_activity_log
\* returned.  The result: the counters, the log collection and the calls made.
flush_activity(ok) ==
    LET t == TakeCounts
    IN IF ~FlushSaves(t.c, t.k)
       THEN [clicks |-> 0, keys |-> 0, logs |-> activity_logs, calls |-> <<>>]
       ELSE IF ok
       THEN [clicks |-> 0, keys |-> 0,
             logs |-> Append(activity_logs, ActivityLog(t.c, t.k)),
             calls |-> <<LogCall(t.c, t.k, TRUE)>>]
       ELSE [clicks |-> PutBack(0, t.c), keys |-> PutBack(0, t.k),
             logs |-> activity_logs,
             calls |-> <<LogCall(t.c, t.k, FALSE)>>]

SetCounts(F) ==
    /\ mouse_clicks' = F.clicks
    /\ keystrokes' = F.keys
    /\ activity_logs' = F.logs

\* ------------------------------------------------------------- work_logs
OpenBreak(t) == [startTime |-> t, endTime |-> None, durationMinutes |-> None]

\* A check_in() that posts a session on break.
NewSessionOnBreak(t) ==
    [status |-> "break", checkInTime |-> t, breaks |-> <<OpenBreak(t)>>, checkOutTime |-> None,
     durationMinutes |-> None, breakDurationMinutes |-> None, report |-> NoReport,
     attachments |-> <<>>, flagged |-> FALSE, lastHeartbeat |-> None]

\* check_in(): the document it posts
NewSession(t) ==
    [status |-> "active", checkInTime |-> t, breaks |-> <<>>, checkOutTime |-> None,
     durationMinutes |-> None, breakDurationMinutes |-> None, report |-> NoReport,
     attachments |-> <<>>, flagged |-> FALSE, lastHeartbeat |-> None]

\* get_active_session(): status in {active, break}, newest checkInTime first, limit 1
ActiveIds(wl) == {i \in DOMAIN wl : wl[i].status \in {"active", "break"}}
MostRecentActive(wl) ==
    {i \in ActiveIds(wl) : \A j \in ActiveIds(wl) : wl[j].checkInTime <= wl[i].checkInTime}

IsOpen(b) == b.endTime = None

\* start_break(): the patch of status and breaks
StartBreakDoc(doc, t) ==
    [doc EXCEPT !.status = "break", !.breaks = Append(@, OpenBreak(t))]

\* resume_work() / check_out(): close the last interval when it has no endTime.
\* tms: the instant the duration is measured to, in microseconds.
CloseLast(breaks, t, tms) ==
    IF breaks # <<>> /\ IsOpen(breaks[Len(breaks)])
    THEN LET last == breaks[Len(breaks)]
         IN [breaks EXCEPT ![Len(breaks)] =
                [startTime |-> last.startTime, endTime |-> t,
                 durationMinutes |-> PyRound(tms - last.startTime, 60000 * 1000)]]
    ELSE breaks

\* resume_work(): the patch of status and breaks
ResumeWorkDoc(doc, t) ==
    [doc EXCEPT !.status = "active", !.breaks = CloseLast(@, t, t)]

\* check_out(): added_break_sec
AddedBreakSec(breaks, t) ==
    IF breaks # <<>> /\ IsOpen(breaks[Len(breaks)])
    THEN TruncDiv(MsOf(t) * 1000 - breaks[Len(breaks)].startTime, 1000 * 1000)
    ELSE 0

\* check_out() / emergency_check_out(): total_raw
TotalRaw(t, cims) == IF cims # 0 THEN PyRound(MsOf(t) - cims, 60000) ELSE 0

\* A durationMinutes that forgets the breaks.
DurationRaw(total_raw, total_break_min) == total_raw

\* check_out() / emergency_check_out(): the durationMinutes written
DurationMinutes(total_raw, total_break_min) == Max0(total_raw - total_break_min)

\* check_out(): the patch, from the breaks it fetched (<<>> when the fetch failed)
CheckOutDoc(doc, breaks, t, cims, report, proof_link, tbs) ==
    LET closed == CloseLast(breaks, t, MsOf(t) * 1000)
        total_break_min == PyRound(tbs + AddedBreakSec(breaks, t), 60)
    IN [doc EXCEPT !.checkOutTime = t,
                   !.status = "completed",
                   !.durationMinutes = DurationMinutes(TotalRaw(t, cims), total_break_min),
                   !.breakDurationMinutes = total_break_min,
                   !.report = report,
                   !.attachments = IF proof_link # "" THEN <<proof_link>> ELSE <<>>,
                   !.breaks = closed]

\* emergency_check_out(): the patch
EmergencyDoc(doc, t, cims, tbs) ==
    LET total_break_min == PyRound(tbs, 60)
    IN [doc EXCEPT !.checkOutTime = t,
                   !.status = "completed",
                   !.durationMinutes = DurationMinutes(TotalRaw(t, cims), total_break_min),
                   !.breakDurationMinutes = total_break_min,
                   !.report = AutoReport,
                   !.attachments = <<>>,
                   !.flagged = TRUE]

\* A total that takes every interval, with or without an endTime
RECURSIVE ClosedBreakSecAll(_)
ClosedBreakSecAll(breaks) ==
    IF breaks = <<>> THEN 0
    ELSE TruncDiv(Head(breaks).endTime - Head(breaks).startTime, 1000 * 1000)
         + ClosedBreakSecAll(Tail(breaks))

\* handle_checkin(), resume branch: total_break_sec over the intervals with an endTime
RECURSIVE ClosedBreakSec(_)
ClosedBreakSec(breaks) ==
    IF breaks = <<>> THEN 0
    ELSE (IF IsOpen(Head(breaks)) THEN 0
          ELSE TruncDiv(Head(breaks).endTime - Head(breaks).startTime, 1000 * 1000))
         + ClosedBreakSec(Tail(breaks))

\* handle_checkin(), resume branch: break_start_ms
ResumedBreakStart(doc) ==
    IF doc.status = "break" /\ doc.breaks # <<>> /\ IsOpen(doc.breaks[Len(doc.breaks)])
    THEN MsOf(doc.breaks[Len(doc.breaks)].startTime)
    ELSE None


\* ------------------------------------------------------------------- Init
Init ==
    /\ now = StartInstant /\ ticks = 0
    /\ phase = "running"
    /\ work_logs = <<>>
    /\ token = FALSE
    /\ session_id = None /\ check_in_time_ms = None
    /\ is_on_break = FALSE /\ break_start_ms = None
    /\ total_break_sec = 0 /\ capture_count = 0
    /\ heartbeat_running = FALSE /\ hb = [i \in LoopIds |-> DeadLoop]
    /\ activity_running = FALSE /\ flushers = [i \in LoopIds |-> DeadLoop]
    /\ mouse_clicks = 0 /\ keystrokes = 0 /\ activity_logs = <<>>
    /\ clicked = 0 /\ typed = 0
    /\ capture_in_progress = FALSE /\ countdown_cancel = FALSE
    /\ auto_running = FALSE /\ auto_timer = None
    /\ timers = [i \in TimerIds |-> FreeTimer]
    /\ remote_running = FALSE /\ pollers = [i \in LoopIds |-> DeadLoop]
    /\ commands = {} /\ issued = 0
    /\ cap = [t \in Threads |-> NoFrame]
    /\ runs = 0 /\ tracker_logs = <<>>
    /\ gui_co = NoCheckout
    /\ resp = NoResp /\ calls = <<>>

\* The wall clock advances.
Tick(d) ==
    /\ ticks < MaxTicks
    /\ now' = now + d
    /\ ticks' = ticks + 1
    /\ resp' = NoResp /\ calls' = <<>>
    /\ UNCHANGED <<guiVars, phase, work_logs, sessVars, trackVars, countVars, inputVars,
                   cmdVars, runVars>>

\* The local server is one HTTPServer thread: it takes the next request when the
\* handler of the previous one has returned.
HttpIdle == phase = "running" /\ cap[HttpThread].pc = "none"

\* --------------------------------------------------------- handle_checkin
\* handle_checkin(), the branch that resumes the stored session sid
CheckinResume(sid, r) ==
    LET doc == work_logs[sid]
    IN /\ CanStart
       /\ session_id' = sid
       /\ check_in_time_ms' = MsOf(doc.checkInTime)
       /\ is_on_break' = (doc.status = "break")
       /\ total_break_sec' = ClosedBreakSec(doc.breaks)
       /\ break_start_ms' = ResumedBreakStart(doc)
       /\ SetTracking(start_tracking(Tracking, r))
       /\ resp' = Resp("checkin", "", TRUE, "", TRUE, sid)
       /\ calls' = <<>>
       /\ UNCHANGED <<work_logs, capture_count>>

\* handle_checkin(), the branch that creates a session; cok: check_in() returned
CheckinNew(cok, r) ==
    IF cok
    THEN /\ CanStart
         /\ Len(work_logs) < MaxSessions
         /\ work_logs' = Append(work_logs, NewSession(now))
         /\ session_id' = Len(work_logs) + 1
         /\ check_in_time_ms' = MsOf(now)
         /\ is_on_break' = FALSE
         /\ total_break_sec' = 0
         /\ break_start_ms' = None
         /\ capture_count' = 0
         /\ SetTracking(start_tracking(Tracking, r))
         /\ resp' = Resp("checkin", "", TRUE, "", FALSE, Len(work_logs) + 1)
         /\ calls' = <<Call("post_work_log", Len(work_logs) + 1, TRUE)>>
    ELSE /\ resp' = Resp("checkin", "", FALSE, "check_in failed", FALSE, None)
         /\ calls' = <<Call("post_work_log", None, FALSE)>>
         /\ UNCHANGED <<work_logs, session_id, check_in_time_ms, is_on_break,
                        total_break_sec, break_start_ms, capture_count, trackVars>>

\* get_active_session() as handle_checkin sees it: the documents the query returns;
\* qok is false when the query is answered not-OK (None) or raises (caught).
QueryActive(qok) == IF qok THEN MostRecentActive(work_logs) ELSE {}

\* POST /api/checkin
HandleCheckin(qok, cok, r) ==
    /\ HttpIdle
    /\ token' = TRUE
    /\ IF QueryActive(qok) # {}
       THEN \E sid \in QueryActive(qok) : CheckinResume(sid, r)
       ELSE CheckinNew(cok, r)
    /\ UNCHANGED <<guiVars, clockVars, phase, countVars, inputVars, cmdVars, runVars>>

\* -------------------------------------------------------- handle_checkout
\* A handler that takes any report.
ReportMissingNever(report) == FALSE

\* handle_checkout(): "if not report"
ReportMissing(report) == report = ""

\* The try block of handle_checkout / handle_gui_checkout: stop_tracking(),
\* flush_activity(), check_out(), then the session globals are cleared.
\* fok: save_activity_log returned; gok: the session document was fetched;
\* pok: the checkout patch returned.
CheckoutBody(op, report, proof_link, fok, gok, pok) ==
    LET F == flush_activity(fok)
        doc == work_logs[session_id]
        breaks == IF gok THEN doc.breaks ELSE <<>>
        cims == IF check_in_time_ms = None THEN 0 ELSE check_in_time_ms
    IN /\ SetTracking(stop_tracking(Tracking))
       /\ SetCounts(F)
       /\ calls' = F.calls \o <<Call("patch_checkout", session_id, pok)>>
       /\ IF pok
          THEN /\ work_logs' = [work_logs EXCEPT ![session_id] =
                      CheckOutDoc(doc, breaks, now, cims, report, proof_link, total_break_sec)]
               /\ session_id' = None
               /\ check_in_time_ms' = None
               /\ is_on_break' = FALSE
               /\ break_start_ms' = None
               /\ total_break_sec' = 0
               /\ resp' = Resp(op, report, TRUE, "", FALSE, None)
          ELSE /\ resp' = Resp(op, report, FALSE, "check_out failed", FALSE, None)
               /\ UNCHANGED <<work_logs, session_id, check_in_time_ms, is_on_break,
                              break_start_ms, total_break_sec>>
       /\ UNCHANGED <<token, capture_count>>

\* POST /api/checkout
HandleCheckout(report, proof_link, fok, gok, pok) ==
    /\ HttpIdle
    /\ IF session_id = None
       THEN /\ resp' = Resp("checkout", report, FALSE, "No active session", FALSE, None)
            /\ calls' = <<>>
            /\ UNCHANGED <<work_logs, sessVars, trackVars, countVars>>
       ELSE IF ReportMissing(report)
       THEN /\ resp' = Resp("checkout", report, FALSE, "Report is required", FALSE, None)
            /\ calls' = <<>>
            /\ UNCHANGED <<work_logs, sessVars, trackVars, countVars>>
       ELSE CheckoutBody("checkout", report, proof_link, fok, gok, pok)
    /\ UNCHANGED <<guiVars, clockVars, phase, inputVars, cmdVars, runVars>>

\* handle_gui_checkout(), on a thread of its own; the dialog passes no empty report.
GuiCheckout(report, proof_link, fok, gok, pok) ==
    /\ phase = "running"
    /\ report # ""
    /\ session_id # None
    /\ CheckoutBody("gui_checkout", report, proof_link, fok, gok, pok)
    /\ UNCHANGED <<guiVars, clockVars, phase, inputVars, cmdVars, runVars>>

\* ---------------------------------- handle_gui_checkout, call by call
\* handle_gui_checkout() on its thread, up to the return of flush_activity():
\* the session test, stop_tracking(), flush_activity().  No lock is held.
GuiCheckoutEnter(report, proof_link, fok) ==
    /\ phase = "running"
    /\ gui_co.pc = "idle"
    /\ report # ""
    /\ session_id # None
    /\ LET F == flush_activity(fok)
       IN /\ SetTracking(stop_tracking(Tracking))
          /\ SetCounts(F)
          /\ calls' = F.calls
    /\ gui_co' = [NoCheckout EXCEPT !.pc = "flushed", !.report = report, !.proof = proof_link]
    /\ resp' = NoResp
    /\ UNCHANGED <<clockVars, phase, work_logs, sessVars, inputVars, cmdVars, runVars>>

\* The call check_out(session_id, check_in_time_ms or 0, ..., total_break_sec):
\* the globals are read as they are now, and check_out fetches the document
\* (gok: it came back; no document is fetched for an id of None).
GuiCheckoutRead(gok) ==
    /\ phase # "exited"
    /\ gui_co.pc = "flushed"
    /\ gui_co' = [gui_co EXCEPT
                     !.pc = "fetched",
                     !.sid = session_id,
                     !.cims = IF check_in_time_ms = None THEN 0 ELSE check_in_time_ms,
                     !.tbs = total_break_sec,
                     !.breaks = IF gok /\ session_id # None
                                THEN work_logs[session_id].breaks ELSE <<>>]
    /\ resp' = NoResp /\ calls' = <<>>
    /\ UNCHANGED <<clockVars, phase, work_logs, sessVars, trackVars, countVars, inputVars,
                   cmdVars, runVars>>

\* check_out() from "now = datetime.now(timezone.utc)" to the return of the
\* patch of the work log (pok: it returned).  A patch that raises ends
\* handle_gui_checkout() in its except clause, the session globals as they were.
GuiCheckoutPatch(pok) ==
    /\ phase # "exited"
    /\ gui_co.pc = "fetched"
    /\ calls' = <<Call("patch_checkout", gui_co.sid, pok)>>
    /\ work_logs' = IF pok /\ gui_co.sid # None
                    THEN [work_logs EXCEPT ![gui_co.sid] =
                             CheckOutDoc(@, gui_co.breaks, now, gui_co.cims, gui_co.report,
                                         gui_co.proof, gui_co.tbs)]
                    ELSE work_logs
    /\ IF pok
       THEN /\ gui_co' = [gui_co EXCEPT !.pc = "patched"]
            /\ resp' = NoResp
       ELSE /\ gui_co' = NoCheckout
            /\ resp' = Resp("gui_checkout", gui_co.report, FALSE, "check_out failed", FALSE, None)
    /\ UNCHANGED <<clockVars, phase, sessVars, trackVars, countVars, inputVars,
                   cmdVars, runVars>>

\* The rest of check_out() and of handle_gui_checkout(): the patch of
\* member_profiles has returned or raised (check_out swallows it), and the
\* session globals are cleared.
GuiCheckoutDone ==
    /\ phase # "exited"
    /\ gui_co.pc = "patched"
    /\ session_id' = None
    /\ check_in_time_ms' = None
    /\ is_on_break' = FALSE
    /\ break_start_ms' = None
    /\ total_break_sec' = 0
    /\ resp' = Resp("gui_checkout", gui_co.report, TRUE, "", FALSE, None)
    /\ calls' = <<>>
    /\ gui_co' = NoCheckout
    /\ UNCHANGED <<clockVars, phase, work_logs, token, capture_count, trackVars, countVars,
                   inputVars, cmdVars, runVars>>

\* ------------------------------------------------- start_break / resume_work
\* firebase_api.start_break(sid); gok: the document was fetched (else it returns),
\* pok: the patch returned (else it raises)
StartBreak(sid, gok, pok) ==
    /\ phase = "running"
    /\ sid \in DOMAIN work_logs
    /\ Len(work_logs[sid].breaks) < MaxBreaks
    /\ work_logs' = IF gok /\ pok
                    THEN [work_logs EXCEPT ![sid] = StartBreakDoc(@, now)]
                    ELSE work_logs
    /\ resp' = Resp("start_break", "", gok /\ pok, "", FALSE, sid)
    /\ calls' = IF gok THEN <<Call("patch_break", sid, pok)>> ELSE <<>>
    /\ UNCHANGED <<guiVars, clockVars, phase, sessVars, trackVars, countVars, inputVars,
                   cmdVars, runVars>>

\* firebase_api.resume_work(sid)
ResumeWork(sid, gok, pok) ==
    /\ phase = "running"
    /\ sid \in DOMAIN work_logs
    /\ work_logs' = IF gok /\ pok
                    THEN [work_logs EXCEPT ![sid] = ResumeWorkDoc(@, now)]
                    ELSE work_logs
    /\ resp' = Resp("resume_work", "", gok /\ pok, "", FALSE, sid)
    /\ calls' = IF gok THEN <<Call("patch_resume", sid, pok)>> ELSE <<>>
    /\ UNCHANGED <<guiVars, clockVars, phase, sessVars, trackVars, countVars, inputVars,
                   cmdVars, runVars>>

\* --------------------------------------------------------------- heartbeat
\* _heartbeat_loop(): the loop condition fails, the thread ends
HbExit(i) ==
    /\ phase # "exited"
    /\ hb[i].pc = "loop"
    /\ ~(heartbeat_running /\ phase = "running")
    /\ hb' = [hb EXCEPT ![i] = DeadLoop]
    /\ resp' = NoResp /\ calls' = <<>>
    /\ UNCHANGED <<guiVars, clockVars, phase, work_logs, sessVars, heartbeat_running, actFlagVars,
                   lockVars, autoVars, remoteVars, countVars, inputVars, cmdVars, runVars>>

\* _heartbeat_loop(): "if session_id:" read, update_heartbeat(session_id) called
HbRead(i) ==
    /\ hb[i].pc = "loop"
    /\ heartbeat_running /\ phase = "running"
    /\ session_id # None
    /\ hb' = [hb EXCEPT ![i].pc = "write", ![i].arg = session_id]
    /\ resp' = NoResp /\ calls' = <<>>
    /\ UNCHANGED <<guiVars, clockVars, phase, work_logs, sessVars, heartbeat_running, actFlagVars,
                   lockVars, autoVars, remoteVars, countVars, inputVars, cmdVars, runVars>>

\* update_heartbeat(sid): the patch of lastHeartbeat; a failure is logged
HbWrite(i, ok) ==
    /\ phase # "exited"
    /\ hb[i].pc = "write"
    /\ hb' = [hb EXCEPT ![i] = FreshLoop]
    /\ IF token
       THEN /\ work_logs' = IF ok
                            THEN [work_logs EXCEPT ![hb[i].arg].lastHeartbeat = now]
                            ELSE work_logs
            /\ calls' = <<Call("patch_heartbeat", hb[i].arg, ok)>>
       ELSE /\ calls' = <<>>
            /\ UNCHANGED work_logs
    /\ resp' = NoResp
    /\ UNCHANGED <<guiVars, clockVars, phase, sessVars, heartbeat_running, actFlagVars,
                   lockVars, autoVars, remoteVars, countVars, inputVars, cmdVars, runVars>>

\* ------------------------------------------------------------------ cleanup
\* A cleanup that a failed emergency patch leaves half done
CleanupBodyRaising(fok, eok) ==
    IF session_id # None /\ token
    THEN LET F == flush_activity(fok)
             cims == IF check_in_time_ms = None THEN 0 ELSE check_in_time_ms
         IN /\ SetTracking(stop_tracking(stop_tracking(Tracking)))
            /\ SetCounts(F)
            /\ work_logs' = IF eok
                            THEN [work_logs EXCEPT ![session_id] =
                                     EmergencyDoc(@, now, cims, total_break_sec)]
                            ELSE work_logs
            /\ calls' = F.calls \o <<Call("patch_emergency", session_id, eok)>>
            /\ session_id' = IF eok THEN None ELSE session_id
            /\ check_in_time_ms' = IF eok THEN None ELSE check_in_time_ms
            /\ UNCHANGED <<token, is_on_break, break_start_ms, total_break_sec, capture_count>>
    ELSE /\ SetTracking(stop_tracking(Tracking))
         /\ calls' = <<>>
         /\ UNCHANGED <<work_logs, sessVars, countVars>>

\* cleanup(): do_emergency_checkout(), stop_tracking(), stop_server().
\* fok: save_activity_log returned; eok: the emergency patch returned.
CleanupBody(fok, eok) ==
    IF session_id # None /\ token
    THEN LET F == flush_activity(fok)
             cims == IF check_in_time_ms = None THEN 0 ELSE check_in_time_ms
         IN /\ SetTracking(stop_tracking(stop_tracking(Tracking)))
            /\ SetCounts(F)
            /\ work_logs' = IF eok
                            THEN [work_logs EXCEPT ![session_id] =
                                     EmergencyDoc(@, now, cims, total_break_sec)]
                            ELSE work_logs
            /\ calls' = F.calls \o <<Call("patch_emergency", session_id, eok)>>
            /\ session_id' = None
            /\ check_in_time_ms' = None
            /\ UNCHANGED <<token, is_on_break, break_start_ms, total_break_sec, capture_count>>
    ELSE /\ SetTracking(stop_tracking(Tracking))
         /\ calls' = <<>>
         /\ UNCHANGED <<work_logs, sessVars, countVars>>

\* _on_gui_quit() (Quit in the window or tray, SIGINT, SIGTERM)
OnGuiQuit(fok, eok) ==
    /\ phase = "running"
    /\ CleanupBody(fok, eok)
    /\ phase' = "quit"
    /\ resp' = Resp("quit", "", TRUE, "", FALSE, None)
    /\ UNCHANGED <<guiVars, clockVars, inputVars, cmdVars, runVars>>

\* cleanup() registered with atexit
AtExit(fok, eok) ==
    /\ phase = "quit"
    /\ CleanupBody(fok, eok)
    /\ phase' = "exited"
    /\ resp' = Resp("atexit", "", TRUE, "", FALSE, None)
    /\ UNCHANGED <<guiVars, clockVars, inputVars, cmdVars, runVars>>

\* ------------------------------------------------ loop threads that end
\* _remote_poll_loop(): "while _remote_running" fails
PollerExit(j) ==
    /\ phase # "exited"
    /\ pollers[j].pc = "loop"
    /\ ~remote_running
    /\ pollers' = [pollers EXCEPT ![j] = DeadLoop]
    /\ resp' = NoResp /\ calls' = <<>>
    /\ UNCHANGED <<guiVars, clockVars, phase, work_logs, sessVars, hbVars, actFlagVars, lockVars,
                   autoVars, remote_running, countVars, inputVars, cmdVars, runVars>>

\* _flush_loop(): "if not _running: break" after the sleep
FlusherExit(i) ==
    /\ phase # "exited"
    /\ flushers[i].pc = "loop"
    /\ ~activity_running
    /\ flushers' = [flushers EXCEPT ![i] = DeadLoop]
    /\ resp' = NoResp /\ calls' = <<>>
    /\ UNCHANGED <<guiVars, clockVars, phase, work_logs, sessVars, hbVars, activity_running,
                   lockVars, autoVars, remoteVars, countVars, inputVars, cmdVars, runVars>>

\* ------------------------------------------------------- activity tracking
\* _on_click(x, y, button, pressed) with pressed true, while the listener runs
Click ==
    /\ phase = "running"
    /\ activity_running
    /\ clicked + typed < MaxEvents
    /\ mouse_clicks' = mouse_clicks + 1
    /\ clicked' = clicked + 1
    /\ resp' = NoResp /\ calls' = <<>>
    /\ UNCHANGED <<guiVars, clockVars, phase, work_logs, sessVars, trackVars, keystrokes,
                   activity_logs, typed, cmdVars, runVars>>

\* _on_key_press(key)
KeyPress ==
    /\ phase = "running"
    /\ activity_running
    /\ clicked + typed < MaxEvents
    /\ keystrokes' = keystrokes + 1
    /\ typed' = typed + 1
    /\ resp' = NoResp /\ calls' = <<>>
    /\ UNCHANGED <<guiVars, clockVars, phase, work_logs, sessVars, trackVars, mouse_clicks,
                   activity_logs, clicked, cmdVars, runVars>>

\* _flush_loop() wakes with _running set and calls flush_activity(): the counters
\* are read and reset under _lock; with nothing to save the call returns.
FlushTake(i) ==
    /\ phase # "exited"
    /\ flushers[i].pc = "loop"
    /\ activity_running
    /\ mouse_clicks' = 0
    /\ keystrokes' = 0
    /\ flushers' = IF FlushSaves(TakeCounts.c, TakeCounts.k)
                   THEN [flushers EXCEPT ![i] = [pc |-> "save", arg |-> None,
                                                 c |-> TakeCounts.c, k |-> TakeCounts.k]]
                   ELSE flushers
    /\ resp' = Resp("flush_activity", "", TRUE, "", FALSE, None)
    /\ calls' = <<>>
    /\ UNCHANGED <<guiVars, clockVars, phase, work_logs, sessVars, hbVars, activity_running,
                   lockVars, autoVars, remoteVars, activity_logs, inputVars, cmdVars,
                   runVars>>

\* flush_activity(), after the lock is released: save_activity_log returns (ok)
\* or raises, and then the taken counts are put back under _lock.
FlushSave(i, ok) ==
    /\ phase # "exited"
    /\ flushers[i].pc = "save"
    /\ flushers' = [flushers EXCEPT ![i] = FreshLoop]
    /\ IF ok
       THEN /\ activity_logs' = Append(activity_logs, ActivityLog(flushers[i].c, flushers[i].k))
            /\ UNCHANGED <<mouse_clicks, keystrokes>>
       ELSE /\ mouse_clicks' = PutBack(mouse_clicks, flushers[i].c)
            /\ keystrokes' = PutBack(keystrokes, flushers[i].k)
            /\ UNCHANGED activity_logs
    /\ resp' = Resp("save_activity_log", "", ok, "", FALSE, None)
    /\ calls' = <<LogCall(flushers[i].c, flushers[i].k, ok)>>
    /\ UNCHANGED <<guiVars, clockVars, phase, work_logs, sessVars, hbVars, activity_running,
                   lockVars, autoVars, remoteVars, inputVars, cmdVars, runVars>>

\* --------------------------------------------------------- perform_capture
InRun(f) == f.pc \in {"entered", "countdown", "capture"}

\* A busy return that runs the finally clause.
SkipBusyReleasing(t) ==
    /\ cap' = [cap EXCEPT ![t].pc = "returned", ![t].skipped = TRUE, ![t].why = "busy"]
    /\ resp' = Resp("skipped_busy", cap[t].type, FALSE, "", FALSE, None)
    /\ capture_in_progress' = FALSE
    /\ UNCHANGED <<countdown_cancel, tracker_logs>>

\* perform_capture(), the guard finds _capture_in_progress set: it returns
\* skipped before the try block, so the finally clause does not run.
SkipBusy(t) ==
    /\ cap' = [cap EXCEPT ![t].pc = "returned", ![t].skipped = TRUE, ![t].why = "busy"]
    /\ resp' = Resp("skipped_busy", cap[t].type, FALSE, "", FALSE, None)
    /\ UNCHANGED <<lockVars, tracker_logs>>

\* perform_capture(), under _capture_lock: test the flag and set it
Enter(t) ==
    /\ phase # "exited"
    /\ cap[t].pc = "call"
    /\ IF capture_in_progress
       THEN SkipBusy(t)
       ELSE /\ capture_in_progress' = TRUE
            /\ cap' = [cap EXCEPT ![t].pc = "entered"]
            /\ resp' = NoResp
            /\ UNCHANGED <<countdown_cancel, tracker_logs>>
    /\ calls' = <<>>
    /\ UNCHANGED <<guiVars, clockVars, phase, work_logs, sessVars, hbVars, actFlagVars, autoVars,
                   remoteVars, countVars, inputVars, cmdVars, runs>>

\* perform_capture(): get_session(); without a uid it returns flagged (the
\* finally clause clears the flag); else _run_countdown() clears the cancel
\* event and starts the countdown.
Begin(t) ==
    /\ phase # "exited"
    /\ cap[t].pc = "entered"
    /\ IF ~token
       THEN /\ cap' = [cap EXCEPT ![t].pc = "returned", ![t].flagged = TRUE,
                                  ![t].why = "nouid"]
            /\ capture_in_progress' = FALSE
            /\ UNCHANGED countdown_cancel
       ELSE /\ cap' = [cap EXCEPT ![t].pc = "countdown", ![t].remaining = COUNTDOWN_SECONDS]
            /\ countdown_cancel' = FALSE
            /\ UNCHANGED capture_in_progress
    /\ resp' = NoResp
    /\ calls' = IF token THEN <<Notice("_play_beep", None)>> ELSE <<>>
    /\ UNCHANGED <<guiVars, clockVars, phase, work_logs, sessVars, hbVars, actFlagVars, autoVars,
                   remoteVars, countVars, inputVars, cmdVars, runs, tracker_logs>>

\* A pulse on each of the last five turns
BeepsAtFive(remaining) == remaining <= 5

\* _run_countdown(): "if remaining <= 3: _play_beep()"
BeepsAt(remaining) == remaining <= 3

\* _run_countdown(): the calls of one turn of the loop, in order: the observer
\* is told the remaining seconds, the beep of the last turns, and after the wait
\* of the last turn the observer is told the countdown is done.
TickCalls(remaining) ==
    <<Notice("_on_countdown_tick", remaining)>>
    \o (IF BeepsAt(remaining) THEN <<Notice("_play_beep", None)>> ELSE <<>>)
    \o (IF remaining = 1 THEN <<Notice("_on_countdown_done", None)>> ELSE <<>>)

\* _run_countdown(), one turn of the loop: a set cancel event ends the run
\* skipped; else the tick is shown and one second is waited.  After the last
\* turn the capture follows.
CountdownTick(t) ==
    /\ phase # "exited"
    /\ cap[t].pc = "countdown"
    /\ IF countdown_cancel
       THEN /\ cap' = [cap EXCEPT ![t].pc = "returned", ![t].skipped = TRUE,
                                  ![t].remaining = 0, ![t].why = "cancel"]
            /\ capture_in_progress' = FALSE
            /\ resp' = Resp("countdown_cancelled", cap[t].type, FALSE, "", FALSE, None)
            /\ calls' = <<Notice("_on_countdown_done", None)>>
       ELSE /\ cap' = [cap EXCEPT ![t].remaining = @ - 1,
                                  ![t].pc = IF cap[t].remaining = 1 THEN "capture" ELSE "countdown"]
            /\ resp' = Resp("countdown_tick", cap[t].type, TRUE, "", FALSE, cap[t].remaining)
            /\ calls' = TickCalls(cap[t].remaining)
            /\ UNCHANGED capture_in_progress
    /\ UNCHANGED <<guiVars, clockVars, phase, work_logs, sessVars, hbVars, actFlagVars,
                   countdown_cancel, autoVars, remoteVars, countVars, inputVars, cmdVars,
                   runs, tracker_logs>>

\* Flagged when either image is missing
FlaggedEither(s, c) == ~s \/ ~c

\* perform_capture(): "flagged = not screenshot_url and not camera_url"
Flagged(s, c) == ~s /\ ~c

\* save_tracker_log(): the record of one capture
CaptureRecord(type, s, c) ==
    [type |-> IF Flagged(s, c) THEN "flagged" ELSE type,
     screenshotUrl |-> s, cameraImageUrl |-> c, flagged |-> Flagged(s, c),
     flagReason |-> IF Flagged(s, c) THEN "Both camera and screen capture failed" ELSE ""]

\* A capture step that gives way to a set cancel event
CaptureCancellable(t, sb, cb, su, cu, lok) ==
    /\ phase # "exited"
    /\ cap[t].pc = "capture"
    /\ IF countdown_cancel
       THEN /\ cap' = [cap EXCEPT ![t].pc = "returned", ![t].skipped = TRUE,
                                  ![t].why = "cancel"]
            /\ calls' = <<>>
            /\ UNCHANGED tracker_logs
       ELSE LET s == sb /\ su
                c == cb /\ cu
            IN /\ cap' = [cap EXCEPT ![t].pc = "returned", ![t].s = s, ![t].c = c,
                                     ![t].flagged = Flagged(s, c), ![t].why = "done"]
               /\ tracker_logs' = IF lok
                                  THEN Append(tracker_logs, CaptureRecord(cap[t].type, s, c))
                                  ELSE tracker_logs
               /\ calls' = <<Call("save_tracker_log", None, lok)>>
    /\ capture_in_progress' = FALSE
    /\ resp' = NoResp
    /\ UNCHANGED <<guiVars, clockVars, phase, work_logs, sessVars, hbVars, actFlagVars,
                   countdown_cancel, autoVars, remoteVars, countVars, inputVars, cmdVars,
                   runs>>

\* perform_capture(), steps 2 and 3 and the finally clause.  sb, cb: the screen
\* and the camera gave an image; su, cu: its upload gave a URL; lok: the log
\* write returned.
Capture(t, sb, cb, su, cu, lok) ==
    /\ phase # "exited"
    /\ cap[t].pc = "capture"
    /\ LET s == sb /\ su
           c == cb /\ cu
       IN /\ cap' = [cap EXCEPT ![t].pc = "returned", ![t].s = s, ![t].c = c,
                                ![t].flagged = Flagged(s, c), ![t].why = "done"]
          /\ tracker_logs' = IF lok
                             THEN Append(tracker_logs, CaptureRecord(cap[t].type, s, c))
                             ELSE tracker_logs
          /\ calls' = <<Call("save_tracker_log", None, lok)>>
    /\ capture_in_progress' = FALSE
    /\ resp' = NoResp
    /\ UNCHANGED <<guiVars, clockVars, phase, work_logs, sessVars, hbVars, actFlagVars,
                   countdown_cancel, autoVars, remoteVars, countVars, inputVars, cmdVars,
                   runs>>

\* ------------------------------------------------------- auto-capture timer
CooldownMs == POST_CAPTURE_COOLDOWN_SEC * 1000

\* _reschedule_after_capture(): the timers and _auto_timer it leaves
Reschedule(tm, ref, running, r) ==
    LET tm1 == CancelTimer(tm, ref)
    IN IF running
       THEN [timers |-> NewTimer(tm1, CooldownMs + RandomDelayMs(r)),
             auto_timer |-> MinOf(FreeTimerIds(tm1))]
       ELSE [timers |-> tm1, auto_timer |-> None]

\* The timer i fires: _do_auto_capture() up to the call of perform_capture.
TimerFire(i) ==
    /\ phase # "exited"
    /\ timers[i].st = "pending"
    /\ IF ~auto_running
       THEN /\ timers' = [timers EXCEPT ![i] = FreeTimer]
            /\ UNCHANGED <<auto_timer, cap, runs>>
       ELSE IF capture_in_progress
       THEN /\ timers' = NewTimer([timers EXCEPT ![i] = FreeTimer], CooldownMs)
            /\ auto_timer' = MinOf(FreeTimerIds([timers EXCEPT ![i] = FreeTimer]))
            /\ UNCHANGED <<cap, runs>>
       ELSE /\ runs < MaxRuns
            /\ timers' = [timers EXCEPT ![i].st = "running"]
            /\ cap' = [cap EXCEPT ![<<"timer", i>>] = CallFrame("auto")]
            /\ runs' = runs + 1
            /\ UNCHANGED auto_timer
    /\ resp' = NoResp /\ calls' = <<>>
    /\ UNCHANGED <<guiVars, clockVars, phase, work_logs, sessVars, hbVars, actFlagVars, lockVars,
                   auto_running, remoteVars, countVars, inputVars, cmdVars, tracker_logs>>

\* _do_auto_capture() of the timer i, busy path, call by call: the tests of
\* _auto_running and _capture_in_progress; the callback thread has decided to
\* call _schedule_next(POST_CAPTURE_COOLDOWN_SEC) and holds no lock.
TimerFireBusy(i) ==
    /\ phase # "exited"
    /\ timers[i].st = "pending"
    /\ auto_running
    /\ capture_in_progress
    /\ timers' = [timers EXCEPT ![i].st = "busy"]
    /\ resp' = NoResp /\ calls' = <<>>
    /\ UNCHANGED <<guiVars, clockVars, phase, work_logs, sessVars, hbVars, actFlagVars, lockVars,
                   auto_running, auto_timer, remoteVars, countVars, inputVars, cmdVars,
                   runVars>>

\* _schedule_next(POST_CAPTURE_COOLDOWN_SEC) of that callback: without
\* _auto_running it returns; else a new Timer is started and assigned to
\* _auto_timer, whatever _auto_timer refers to; the callback thread ends.
TimerScheduleNext(i) ==
    /\ phase # "exited"
    /\ timers[i].st = "busy"
    /\ IF auto_running
       THEN /\ timers' = NewTimer([timers EXCEPT ![i] = FreeTimer], CooldownMs)
            /\ auto_timer' = MinOf(FreeTimerIds([timers EXCEPT ![i] = FreeTimer]))
       ELSE /\ timers' = [timers EXCEPT ![i] = FreeTimer]
            /\ UNCHANGED auto_timer
    /\ resp' = NoResp /\ calls' = <<>>
    /\ UNCHANGED <<guiVars, clockVars, phase, work_logs, sessVars, hbVars, actFlagVars, lockVars,
                   auto_running, remoteVars, countVars, inputVars, cmdVars, runVars>>

\* _do_auto_capture() after perform_capture returned: the callback
\* (on_capture_done) for a result that is not skipped, then
\* _reschedule_after_capture(); the timer thread ends.
TimerAfter(i, r) ==
    /\ phase # "exited"
    /\ cap[<<"timer", i>>].pc = "returned"
    /\ LET R == Reschedule([timers EXCEPT ![i] = FreeTimer], auto_timer, auto_running, r)
       IN timers' = R.timers /\ auto_timer' = R.auto_timer
    /\ capture_count' = IF cap[<<"timer", i>>].skipped THEN capture_count ELSE capture_count + 1
    /\ cap' = [cap EXCEPT ![<<"timer", i>>] = NoFrame]
    /\ resp' = NoResp /\ calls' = <<>>
    /\ UNCHANGED <<guiVars, clockVars, phase, work_logs, token, session_id, check_in_time_ms,
                   is_on_break, break_start_ms, total_break_sec, hbVars, actFlagVars,
                   lockVars, auto_running, remoteVars, countVars, inputVars, cmdVars,
                   runs, tracker_logs>>

\* ---------------------------------------------------- remote command poller
\* An operator queues a capture command for the user.
IssueCommand ==
    /\ phase = "running"
    /\ issued < MaxCommands
    /\ issued' = issued + 1
    /\ commands' = commands \cup {issued + 1}
    /\ resp' = NoResp /\ calls' = <<>>
    /\ UNCHANGED <<guiVars, clockVars, phase, work_logs, sessVars, trackVars, countVars, inputVars,
                   runVars>>

\* An acknowledgement that completes every pending command.
AcknowledgedAll(cmds, cmd) == {}

\* complete_capture_command(cmd): the commands still pending afterwards
Acknowledged(cmds, cmd) == cmds \ {cmd}

\* _remote_poll_loop(), one turn that finds the pending command cmd first and
\* the executor idle: perform_capture("manual") is called.
PollerTake(j, cmd) ==
    /\ phase # "exited"
    /\ pollers[j].pc = "loop"
    /\ remote_running
    /\ token
    /\ cmd \in commands
    /\ ~capture_in_progress
    /\ runs < MaxRuns
    /\ pollers' = [pollers EXCEPT ![j].pc = "capture", ![j].arg = cmd]
    /\ cap' = [cap EXCEPT ![<<"poller", j>>] = CallFrame("manual")]
    /\ runs' = runs + 1
    /\ resp' = NoResp /\ calls' = <<>>
    /\ UNCHANGED <<guiVars, clockVars, phase, work_logs, sessVars, hbVars, actFlagVars, lockVars,
                   autoVars, remote_running, countVars, inputVars, cmdVars, tracker_logs>>

\* _remote_poll_loop() after perform_capture returned: the callback for a
\* result that is not skipped, complete_capture_command (aok: it returned; a
\* raise is caught by the loop), then _reschedule_after_capture(), then the sleep.
PollerAfter(j, aok, r) ==
    /\ phase # "exited"
    /\ pollers[j].pc = "capture"
    /\ cap[<<"poller", j>>].pc = "returned"
    /\ capture_count' = IF cap[<<"poller", j>>].skipped THEN capture_count
                        ELSE capture_count + 1
    /\ IF aok
       THEN /\ commands' = Acknowledged(commands, pollers[j].arg)
            /\ \/ ~auto_running
               \/ FreeTimerIds(CancelTimer(timers, auto_timer)) # {}
            /\ LET R == Reschedule(timers, auto_timer, auto_running, r)
               IN timers' = R.timers /\ auto_timer' = R.auto_timer
       ELSE UNCHANGED <<commands, timers, auto_timer>>
    /\ pollers' = [pollers EXCEPT ![j] = FreshLoop]
    /\ cap' = [cap EXCEPT ![<<"poller", j>>] = NoFrame]
    /\ resp' = NoResp
    /\ calls' = <<Call("complete_capture_command", pollers[j].arg, aok)>>
    /\ UNCHANGED <<guiVars, clockVars, phase, work_logs, token, session_id, check_in_time_ms,
                   is_on_break, break_start_ms, total_break_sec, hbVars, actFlagVars,
                   lockVars, auto_running, remote_running, countVars, inputVars, issued,
                   runs, tracker_logs>>

\* ------------------------------------------------------------ handle_capture
\* POST /api/capture: handle_capture() calls perform_capture("remote")
HandleCapture ==
    /\ HttpIdle
    /\ runs < MaxRuns
    /\ cap' = [cap EXCEPT ![HttpThread] = CallFrame("remote")]
    /\ runs' = runs + 1
    /\ resp' = NoResp /\ calls' = <<>>
    /\ UNCHANGED <<guiVars, clockVars, phase, work_logs, sessVars, trackVars, countVars, inputVars,
                   cmdVars, tracker_logs>>

\* handle_capture() after perform_capture returned: capture_count += 1 and the
\* response
HttpAfter ==
    /\ phase # "exited"
    /\ cap[HttpThread].pc = "returned"
    /\ capture_count' = capture_count + 1
    /\ cap' = [cap EXCEPT ![HttpThread] = NoFrame]
    /\ resp' = Resp("capture", "", TRUE, "", FALSE, None)
    /\ calls' = <<>>
    /\ UNCHANGED <<guiVars, clockVars, phase, work_logs, token, session_id, check_in_time_ms,
                   is_on_break, break_start_ms, total_break_sec, trackVars, countVars,
                   inputVars, cmdVars, runs, tracker_logs>>

\* ------------------------------------------------------ the specifications
\* In the specifications whose timers never fire, one draw of random.random().
OneSample == {500}

\* save_activity_log is reached only with counts to save.
FlushOutcomes == IF FlushSaves(mouse_clicks, keystrokes) THEN BOOLEAN ELSE {TRUE}

\* The handlers of the local server, the window and the exit path.
SessionOps(R) ==
    \/ \E qok, cok \in BOOLEAN, r \in R : HandleCheckin(qok, cok, r)
    \/ \E report \in Reports, p \in ProofLinks, fok \in FlushOutcomes, gok, pok \in BOOLEAN :
          HandleCheckout(report, p, fok, gok, pok)
    \/ \E report \in Reports, p \in ProofLinks, fok \in FlushOutcomes, gok, pok \in BOOLEAN :
          GuiCheckout(report, p, fok, gok, pok)
    \/ \E fok \in FlushOutcomes, eok \in BOOLEAN : OnGuiQuit(fok, eok)
    \/ \E fok \in FlushOutcomes, eok \in BOOLEAN : AtExit(fok, eok)

BreakOps ==
    \/ \E gok, pok \in BOOLEAN : StartBreak(session_id, gok, pok)
    \/ \E gok, pok \in BOOLEAN : ResumeWork(session_id, gok, pok)

\* Sessions, breaks and the clock, over MaxTimedSessions documents.
NextSession ==
    /\ \/ \E d \in Steps : Tick(d)
       \/ SessionOps(OneSample)
       \/ BreakOps
    /\ Len(work_logs') <= MaxTimedSessions

SpecSession == Init /\ [][NextSession]_vars

\* Sessions and the clock, over MaxSessions documents.
NextCheckin ==
    \/ \E d \in Steps : Tick(d)
    \/ SessionOps(OneSample)

SpecCheckin == Init /\ [][NextCheckin]_vars

\* Sessions and the heartbeat loop.
NextHeartbeat ==
    \/ SessionOps(OneSample)
    \/ \E i \in LoopIds : HbRead(i)
    \/ \E i \in LoopIds, ok \in BOOLEAN : HbWrite(i, ok)
    \/ \E i \in LoopIds : HbExit(i)

SpecHeartbeat == Init /\ [][NextHeartbeat]_vars

\* Sessions, the input listeners and the flush loop.
NextActivity ==
    \/ SessionOps(OneSample)
    \/ Click
    \/ KeyPress
    \/ \E i \in LoopIds : FlushTake(i)
    \/ \E i \in LoopIds, ok \in BOOLEAN : FlushSave(i, ok)
    \/ \E i \in LoopIds : FlusherExit(i)

SpecActivity == Init /\ [][NextActivity]_vars

\* One perform_capture call of any thread, step by step.
CaptureSteps ==
    \/ \E t \in Threads : Enter(t)
    \/ \E t \in Threads : Begin(t)
    \/ \E t \in Threads : CountdownTick(t)
    \/ \E t \in Threads, sb, cb, su, cu, lok \in BOOLEAN : Capture(t, sb, cb, su, cu, lok)

\* Check-in by the local server and check-out by the window, whose dialog
\* passes on only a report that is not empty.
CheckInOut ==
    \/ \E qok, cok \in BOOLEAN, r \in OneSample : HandleCheckin(qok, cok, r)
    \/ \E fok \in FlushOutcomes, gok, pok \in BOOLEAN :
          GuiCheckout("done", "", fok, gok, pok)

\* Sessions, the capture executor, the auto-capture timer and the capture
\* requests of the local server.
NextCapture ==
    /\ \/ CheckInOut
       \/ CaptureSteps
       \/ \E i \in TimerIds : TimerFire(i)
       \/ \E i \in TimerIds, r \in OneSample : TimerAfter(i, r)
       \/ HandleCapture
       \/ HttpAfter
    /\ Len(work_logs') <= MaxTimedSessions
    /\ Len(tracker_logs') <= MaxCaptureLogs

SpecCapture == Init /\ [][NextCapture]_vars


\* Sessions, the capture executor and the auto-capture timer, with the draws
\* of random.random() at both ends of [0, 1) and in the middle, over
\* MaxSoloRuns capture runs.
NextAuto ==
    /\ \/ \E qok, cok \in BOOLEAN, r \in RandomSamples : HandleCheckin(qok, cok, r)
       \/ \E fok \in FlushOutcomes, gok, pok \in BOOLEAN :
             GuiCheckout("done", "", fok, gok, pok)
       \/ CaptureSteps
       \/ \E i \in TimerIds : TimerFire(i)
       \/ \E i \in TimerIds, r \in RandomSamples : TimerAfter(i, r)
    /\ Len(work_logs') <= MaxTimedSessions
    /\ Len(tracker_logs') <= MaxCaptureLogs
    /\ runs' <= MaxSoloRuns

SpecAuto == Init /\ [][NextAuto]_vars

\* Sessions, the capture executor and the remote command poller, over
\* MaxSoloRuns capture runs.
NextRemote ==
    /\ \/ CheckInOut
       \/ CaptureSteps
       \/ IssueCommand
       \/ \E j \in LoopIds, cmd \in 1 .. MaxCommands : PollerTake(j, cmd)
       \/ \E j \in LoopIds, aok \in BOOLEAN, r \in OneSample : PollerAfter(j, aok, r)
       \/ \E j \in LoopIds : PollerExit(j)
    /\ Len(work_logs') <= MaxTimedSessions
    /\ Len(tracker_logs') <= MaxCaptureLogs
    /\ runs' <= MaxSoloRuns

SpecRemote == Init /\ [][NextRemote]_vars

\* Sessions and breaks without the clock, over MaxSessions documents.
NextResume ==
    \/ SessionOps(OneSample)
    \/ BreakOps

SpecResume == Init /\ [][NextResume]_vars

\* The local server's check-in and check-out and the window's check-out on
\* its own thread, one store call at a time.
NextRace ==
    \/ \E d \in Steps : Tick(d)
    \/ \E qok, cok \in BOOLEAN, r \in OneSample : HandleCheckin(qok, cok, r)
    \/ \E report \in Reports, p \in ProofLinks, fok \in FlushOutcomes, gok, pok \in BOOLEAN :
          HandleCheckout(report, p, fok, gok, pok)
    \/ \E p \in ProofLinks, fok \in FlushOutcomes : GuiCheckoutEnter("done", p, fok)
    \/ \E gok \in BOOLEAN : GuiCheckoutRead(gok)
    \/ \E pok \in BOOLEAN : GuiCheckoutPatch(pok)
    \/ GuiCheckoutDone

SpecRace == Init /\ [][NextRace]_vars

\* The check-outs one store call at a time, and the quit of the main thread
\* with the cleanup that atexit runs after it.
NextExit ==
    \/ NextRace
    \/ \E fok \in FlushOutcomes, eok \in BOOLEAN : OnGuiQuit(fok, eok)
    \/ \E fok \in FlushOutcomes, eok \in BOOLEAN : AtExit(fok, eok)

SpecExit == Init /\ [][NextExit]_vars


\* Tracking that is started and keeps running: the capture executor shared by
\* the auto-capture timer and the command poller, over MaxRuns capture runs,
\* with the busy path of the timer callback also taken call by call.
NextShared ==
    /\ \/ \E qok, cok \in BOOLEAN, r \in OneSample : HandleCheckin(qok, cok, r)
       \/ CaptureSteps
       \/ \E i \in TimerIds : TimerFire(i)
       \/ \E i \in TimerIds, r \in OneSample : TimerAfter(i, r)
       \/ \E i \in TimerIds : TimerFireBusy(i)
       \/ \E i \in TimerIds : TimerScheduleNext(i)
       \/ IssueCommand
       \/ \E j \in LoopIds, cmd \in 1 .. MaxCommands : PollerTake(j, cmd)
       \/ \E j \in LoopIds, aok \in BOOLEAN, r \in OneSample : PollerAfter(j, aok, r)
    /\ Len(work_logs') <= MaxTimedSessions
    /\ Len(tracker_logs') <= MaxCaptureLogs
    /\ issued' <= MaxQueued

SpecShared == Init /\ [][NextShared]_vars

\* ------------------------------------------------------------- properties
Completed(wl) == {i \in DOMAIN wl : wl[i].status = "completed"}
OpenIntervals(doc) == {n \in DOMAIN doc.breaks : IsOpen(doc.breaks[n])}

\* The time spent in the break intervals of a document, in microseconds; an
\* interval without an end counts up to the checkout.
RECURSIVE BreakSpan(_, _)
BreakSpan(breaks, out) ==
    IF breaks = <<>> THEN 0
    ELSE ((IF IsOpen(Head(breaks)) THEN out ELSE Head(breaks).endTime) - Head(breaks).startTime)
         + BreakSpan(Tail(breaks), out)

HalfMinute == 30 * 1000 * 1000

\* C3: the breakDurationMinutes that a check-out persists is, to the nearest
\* minute, the time between start and end summed over all break intervals of
\* the session (an interval open at the check-out ends at the check-out time).
C3_BreakTotal ==
    \A i \in Completed(work_logs) :
        ~work_logs[i].flagged =>
            LET span == BreakSpan(work_logs[i].breaks, work_logs[i].checkOutTime)
                gap == work_logs[i].breakDurationMinutes * 2 * HalfMinute - span
            IN gap <= HalfMinute /\ 0 - gap <= HalfMinute

\* C4: every completed session has durationMinutes =
\* max(0, round((checkOutTime - checkInTime) / 60 s) - breakDurationMinutes),
\* in the arithmetic of the code (instants in whole milliseconds, round half to
\* even), and so durationMinutes is never negative.
C4_Duration ==
    \A i \in Completed(work_logs) :
        LET doc == work_logs[i]
            raw == PyRound(MsOf(doc.checkOutTime) - MsOf(doc.checkInTime), 60000)
        IN /\ doc.durationMinutes >= 0
           /\ doc.durationMinutes =
                 (IF raw - doc.breakDurationMinutes > 0 THEN raw - doc.breakDurationMinutes ELSE 0)

\* C4 happens: a completed session with time worked and time on break.
C4_Witness ==
    \E i \in Completed(work_logs) :
        work_logs[i].durationMinutes > 0 /\ work_logs[i].breakDurationMinutes > 0

\* C5: the breaks list of a session holds at most one interval without an end.
C5_OneOpenBreak ==
    \A i \in DOMAIN work_logs : Cardinality(OpenIntervals(work_logs[i])) <= 1

\* C6: no step writes to a session document whose persisted status is completed.
C6_CompletedTerminal ==
    [][\A i \in Completed(work_logs) : work_logs'[i] = work_logs[i]]_vars

\* C7: a check-out request with an empty report is answered with a failure and
\* changes nothing: the session globals and the break state stay, the tracking
\* loops keep their state, the activity counters are not flushed and no call
\* goes to the store.
C7_EmptyReport ==
    [][(resp'.op = "checkout" /\ resp'.arg = "")
          => /\ ~resp'.ok
             /\ calls' = <<>>
             /\ UNCHANGED <<work_logs, sessVars, trackVars, countVars>>]_vars

\* C7 happens: the request was refused for its report while a session was
\* held and tracking ran.
C7_Witness ==
    /\ resp.op = "checkout" /\ resp.arg = "" /\ resp.err = "Report is required"
    /\ session_id # None
    /\ heartbeat_running /\ activity_running /\ auto_running /\ remote_running

\* C10: a check-in that finds no session with status active or break in the
\* store does not resume; when check_in returns, the store has exactly one more
\* session, with status active, checkInTime now and no breaks, the tracker
\* holds it, is not on break, has a break total of zero, and tracking runs.
C10_FreshCheckin ==
    [][(resp'.op = "checkin" /\ ActiveIds(work_logs) = {})
          => /\ ~resp'.resumed
             /\ ~resp'.ok => work_logs' = work_logs
             /\ resp'.ok =>
                   /\ Len(work_logs') = Len(work_logs) + 1
                   /\ SubSeq(work_logs', 1, Len(work_logs)) = work_logs
                   /\ work_logs'[Len(work_logs')].status = "active"
                   /\ work_logs'[Len(work_logs')].checkInTime = now
                   /\ work_logs'[Len(work_logs')].breaks = <<>>
                   /\ session_id' = Len(work_logs')
                   /\ ~is_on_break' /\ total_break_sec' = 0 /\ break_start_ms' = None
                   /\ heartbeat_running' /\ activity_running'
                   /\ auto_running' /\ remote_running'
                   /\ auto_timer' # None /\ timers'[auto_timer'].st = "pending"]_vars

\* C10 happens: with a completed session in the store and the clock advanced,
\* a check-in made a second session.
C10_Witness ==
    /\ resp.op = "checkin" /\ resp.ok /\ ~resp.resumed
    /\ Len(work_logs) = 2
    /\ work_logs[1].status = "completed"
    /\ work_logs[2].status = "active" /\ work_logs[2].checkInTime > StartInstant
    /\ session_id = 2 /\ auto_running


RECURSIVE Persisted(_, _)
Persisted(logs, field) ==
    IF logs = <<>> THEN 0 ELSE Head(logs)[field] + Persisted(Tail(logs), field)

RECURSIVE InFlight(_, _)
InFlight(S, field) ==
    IF S = {} THEN 0
    ELSE LET i == CHOOSE x \in S : TRUE
         IN (IF flushers[i].pc = "save" THEN flushers[i][field] ELSE 0)
            + InFlight(S \ {i}, field)

FailedSave(cs) == cs # <<>> /\ cs[Len(cs)].op = "save_activity_log" /\ ~cs[Len(cs)].ok

\* C8: no recorded event is lost.  The clicks (keystrokes) recorded so far are
\* those in the persisted activity logs, plus the live counter, plus those a
\* flush has taken and not yet saved or put back; and a flush loop whose save
\* of (c, k) fails leaves each live counter at what it was plus c (plus k).
C8_NoEventLost ==
    /\ [](/\ clicked = Persisted(activity_logs, "mouseClicks") + mouse_clicks
                         + InFlight(LoopIds, "c")
          /\ typed = Persisted(activity_logs, "keystrokes") + keystrokes
                       + InFlight(LoopIds, "k"))
    /\ [][(resp'.op = "save_activity_log" /\ FailedSave(calls'))
             => /\ mouse_clicks' = mouse_clicks + calls'[1].clicks
                /\ keystrokes' = keystrokes + calls'[1].keys
                /\ activity_logs' = activity_logs]_vars

\* C8 happens: a save of clicks failed after further clicks were recorded, and
\* the live counter holds both.
C8_Witness ==
    /\ resp.op = "save_activity_log" /\ FailedSave(calls)
    /\ calls[1].clicks > 0
    /\ mouse_clicks > calls[1].clicks
    /\ clicked = mouse_clicks + Persisted(activity_logs, "mouseClicks")

FlushingOps == {"flush_activity", "checkout", "gui_checkout", "quit", "atexit"}

\* C9: a step that calls flush_activity while both counters are zero makes no
\* save_activity_log call, starts none, and leaves both counters at zero.
C9_EmptyFlush ==
    [][(resp'.op \in FlushingOps /\ mouse_clicks = 0 /\ keystrokes = 0)
          => /\ ~Made(calls', "save_activity_log")
             /\ \A i \in LoopIds : flushers'[i].pc = "save" => flushers[i].pc = "save"
             /\ mouse_clicks' = 0 /\ keystrokes' = 0
             /\ activity_logs' = activity_logs]_vars

\* C9 happens: the flush loop called flush_activity, found both counters zero
\* and returned, with no save under way.
C9_Witness ==
    /\ resp.op = "flush_activity"
    /\ mouse_clicks = 0 /\ keystrokes = 0
    /\ \A i \in LoopIds : flushers[i].pc # "save"
    /\ activity_running

Running == {t \in Threads : InRun(cap[t])}

\* C1: at most one perform_capture run is between taking the busy flag and the
\* end of its acquire, upload and log steps.
C1_SingleFlight == Cardinality(Running) <= 1

\* C2: a perform_capture call that finds the busy flag set returns skipped,
\* with no countdown, no image, no upload and no capture record, and the flag
\* stays set; the calls of the other threads are not touched.
C2_BusySkip ==
    [][\A t \in Threads :
          (cap[t].pc = "call" /\ capture_in_progress /\ cap'[t] # cap[t])
             => /\ cap'[t] = [cap[t] EXCEPT !.pc = "returned", !.skipped = TRUE,
                                            !.why = "busy"]
                /\ cap'[t].remaining = 0 /\ ~cap'[t].s /\ ~cap'[t].c
                /\ capture_in_progress'
                /\ countdown_cancel' = countdown_cancel
                /\ tracker_logs' = tracker_logs
                /\ calls' = <<>>
                /\ \A u \in Threads \ {t} : cap'[u] = cap[u]]_vars

\* C2 happens: a call returned skipped for the set flag while the run of
\* another thread is under way and the flag is still set.
C2_Witness ==
    \E t \in Threads :
        /\ cap[t].pc = "returned" /\ cap[t].skipped
        /\ resp.op = "skipped_busy"
        /\ capture_in_progress
        /\ \E u \in Threads \ {t} : cap[u].pc = "countdown"


OnBreakIds(wl) == {i \in DOMAIN wl : wl[i].status = "break"}

\* C11: a check-in that is answered ok while the store holds a session with
\* status break resumes that session: the answer carries its id with resumed
\* true, the tracker is on break, its break-start marker is the start of the
\* last interval, and that interval is still open in the store.
C11_ResumeOnBreak ==
    [][(resp'.op = "checkin" /\ resp'.ok /\ OnBreakIds(work_logs) # {})
          => /\ resp'.resumed
             /\ resp'.sessionId \in OnBreakIds(work_logs)
             /\ work_logs' = work_logs
             /\ session_id' = resp'.sessionId
             /\ is_on_break'
             /\ LET breaks == work_logs'[resp'.sessionId].breaks
                IN /\ breaks # <<>>
                   /\ IsOpen(breaks[Len(breaks)])
                   /\ breaks[Len(breaks)].durationMinutes = None
                   /\ break_start_ms' = MsOf(breaks[Len(breaks)].startTime)]_vars

\* C12: a check-in made while the store holds a session with status active or
\* break resumes it and creates no session, whatever the existing-session
\* query answers; so the store never holds two sessions with status active or
\* break.
C12_ResumeNotCreate ==
    /\ [][(resp'.op = "checkin" /\ ActiveIds(work_logs) # {})
             => /\ Len(work_logs') = Len(work_logs)
                /\ resp'.ok => resp'.resumed /\ resp'.sessionId \in ActiveIds(work_logs)]_vars
    /\ [](Cardinality(ActiveIds(work_logs)) <= 1)


\* C13: when the callback of the auto-capture timer ends after a capture that
\* was not skipped, and auto-capture is running, the one timer then pending is
\* the scheduler's, with a delay of at least 120 s + 10 min and less than
\* 120 s + 30 min.
C13_DelayAfterCapture ==
    [][\A i \in TimerIds :
          (/\ cap[<<"timer", i>>].pc = "returned" /\ ~cap[<<"timer", i>>].skipped
           /\ cap'[<<"timer", i>>].pc = "none"
           /\ auto_running)
             => /\ auto_timer' # None
                /\ \A k \in TimerIds : timers'[k].st = "pending" <=> k = auto_timer'
                /\ timers'[auto_timer'].delay >= (120 + 10 * 60) * 1000
                /\ timers'[auto_timer'].delay < (120 + 30 * 60) * 1000]_vars

\* C13 happens: an automatic capture was made and recorded, and the next
\* attempt is scheduled near the far end of the range.
C13_Witness ==
    /\ auto_running /\ capture_count = 1 /\ tracker_logs # <<>>
    /\ \A t \in Threads : cap[t].pc = "none"
    /\ auto_timer # None
    /\ timers[auto_timer].st = "pending"
    /\ timers[auto_timer].delay > (120 + 29 * 60) * 1000


FirstTimer(k) ==
    /\ auto_timer = k /\ timers[k].st = "pending"
    /\ timers[k].delay >= 3 * 60 * 1000 /\ timers[k].delay < 5 * 60 * 1000

\* C14: a check-in that starts tracking leaves the scheduler's timer pending
\* with a delay of at least 3 and less than 5 minutes, and while that first
\* timer is pending the end of a timer callback (one that fired before this
\* start) neither cancels nor replaces it.
C14_FirstAttempt ==
    /\ [][(resp'.op = "checkin" /\ resp'.ok)
             => /\ auto_timer' # None
                /\ timers'[auto_timer'].st = "pending"
                /\ timers'[auto_timer'].delay >= 3 * 60 * 1000
                /\ timers'[auto_timer'].delay < 5 * 60 * 1000]_vars
    /\ [][\A i, k \in TimerIds :
             (/\ cap[<<"timer", i>>].pc = "returned" /\ cap'[<<"timer", i>>].pc = "none"
              /\ FirstTimer(k))
                => auto_timer' = k /\ timers'[k] = timers[k]]_vars


\* C15: when the callback of the auto-capture timer ends after perform_capture
\* returned skipped for the set busy flag, and auto-capture is running, the
\* scheduler's next timer is pending with a delay of exactly 120 s; and when
\* the callback's own look at the flag finds it set, the same.
C15_BareCooldown ==
    /\ [][\A i \in TimerIds :
             (/\ cap[<<"timer", i>>].pc = "returned" /\ cap[<<"timer", i>>].why = "busy"
              /\ cap'[<<"timer", i>>].pc = "none"
              /\ auto_running)
                => /\ auto_timer' # None
                   /\ timers'[auto_timer'].st = "pending"
                   /\ timers'[auto_timer'].delay = 120 * 1000]_vars
    /\ [][\A i \in TimerIds :
             (/\ timers[i].st = "pending" /\ timers'[i] # timers[i]
              /\ auto_running /\ auto_running' /\ capture_in_progress
              /\ cap' = cap /\ resp'.op = "")
                => /\ auto_timer' # None
                   /\ timers'[auto_timer'].st = "pending"
                   /\ timers'[auto_timer'].delay = 120 * 1000]_vars


\* C16: while auto-capture is stopped, no call made by a timer callback begins
\* its countdown or goes from its countdown on to the capture, and no
\* auto-capture timer is pending.
C16_QuietAfterStop ==
    /\ [][(~auto_running /\ ~auto_running')
             => \A i \in TimerIds :
                   /\ ~(cap[<<"timer", i>>].pc = "entered" /\ cap'[<<"timer", i>>].pc = "countdown")
                   /\ ~(cap[<<"timer", i>>].pc = "countdown" /\ cap'[<<"timer", i>>].pc = "capture")]_vars
    /\ [](~auto_running => \A k \in TimerIds : timers[k].st # "pending")


\* C17: a turn of the poller that finds commands pending and the executor idle
\* makes one perform_capture call, for one of the pending commands; when the
\* call has returned it sends one completion, for that command, and once the
\* store has taken it exactly that command is no longer pending: every other
\* command stays pending.
C17_OnePerTick ==
    [][\A j \in LoopIds :
          /\ (pollers[j].pc = "loop" /\ pollers'[j].pc = "capture")
                => /\ pollers'[j].arg \in commands
                   /\ ~capture_in_progress
                   /\ commands' = commands
                   /\ runs' = runs + 1
                   /\ cap[<<"poller", j>>].pc = "none" /\ cap'[<<"poller", j>>].pc = "call"
          /\ (pollers[j].pc = "capture" /\ pollers'[j].pc # "capture")
                => /\ Len(calls') = 1
                   /\ calls'[1].op = "complete_capture_command"
                   /\ calls'[1].sid = pollers[j].arg
                   /\ commands \ {pollers[j].arg} \subseteq commands'
                   /\ commands' \subseteq commands
                   /\ calls'[1].ok => pollers[j].arg \notin commands'
                   /\ runs' = runs]_vars

\* C17 happens: with three commands pending a turn of the poller made one
\* capture and completed one command; the other two are still pending.
C17_Witness ==
    /\ calls # <<>> /\ calls[1].op = "complete_capture_command" /\ calls[1].ok
    /\ issued = 3 /\ Cardinality(commands) = 2 /\ calls[1].sid \notin commands
    /\ runs = 1 /\ capture_count = 1 /\ tracker_logs # <<>>
    /\ \A t \in Threads : cap[t].pc = "none"


\* C18: when the perform_capture call of a poller turn returned without
\* having captured (skipped for the busy flag or for a cancelled countdown, or
\* ended for want of a user id), the turn sends no completion and the command
\* stays pending.
C18_AckOnlyExecuted ==
    [][\A j \in LoopIds :
          (/\ pollers[j].pc = "capture" /\ pollers'[j].pc # "capture"
           /\ cap[<<"poller", j>>].skipped \/ cap[<<"poller", j>>].why = "nouid")
             => /\ ~Made(calls', "complete_capture_command")
                /\ commands' = commands]_vars


\* C19: when a poller turn ends after a capture that was not skipped, and
\* auto-capture is running, the one auto-capture timer then pending is a new
\* one with a delay of at least 120 s + 10 min and less than 120 s + 30 min,
\* whether or not the completion of the command was taken.
C19_PushOutAfterRemote ==
    [][\A j \in LoopIds :
          (/\ pollers[j].pc = "capture" /\ pollers'[j].pc # "capture"
           /\ ~cap[<<"poller", j>>].skipped
           /\ auto_running)
             => /\ auto_timer' # None
                /\ \A k \in TimerIds : timers'[k].st = "pending" <=> k = auto_timer'
                /\ timers'[auto_timer'].delay >= (120 + 10 * 60) * 1000
                /\ timers'[auto_timer'].delay < (120 + 30 * 60) * 1000]_vars


\* C20: when a checkout has just stopped tracking, signalling cancellation,
\* while a run holds the in-progress flag and has not finished its countdown,
\* the next step of that run ends it skipped, with the observer notified and
\* nothing recorded.
C20_CancelInWindow ==
    [][\A t \in DOMAIN cap :
          (/\ Made(calls, "patch_checkout") /\ countdown_cancel
           /\ cap[t].pc \in {"entered", "countdown"}
           /\ cap'[t] # cap[t])
             => /\ cap'[t].pc = "returned"
                /\ cap'[t].skipped
                /\ resp'.op = "countdown_cancelled"
                /\ tracker_logs' = tracker_logs]_vars


\* The save_tracker_log calls among the store calls of one step
LogWrites(cs) == {n \in DOMAIN cs : cs[n].op = "save_tracker_log"}

\* C21: the step on which a perform_capture run returns carries exactly one
\* save_tracker_log call when the result is not skipped, with a result that is
\* the same whether or not the write succeeded, and carries no such call when
\* the result is skipped.
C21_OneRecordWrite ==
    [][\A t \in Threads :
          (cap[t].pc # "returned" /\ cap'[t].pc = "returned")
             => IF cap'[t].skipped
                THEN LogWrites(calls') = {}
                ELSE /\ Cardinality(LogWrites(calls')) = 1
                     /\ cap'[t].flagged = Flagged(cap'[t].s, cap'[t].c)]_vars


\* The record that a step appended to tracker_logs
Appended(old, new) == Len(new) = Len(old) + 1

\* C22: when a perform_capture run returns not skipped, its result is flagged
\* exactly when it has neither a screenshot URL nor a camera URL; the record it
\* wrote has the same two URLs, is flagged under the same condition, and has a
\* flag reason exactly when it is flagged.
C22_FlaggedIffBothAbsent ==
    [][\A t \in Threads :
          (cap[t].pc # "returned" /\ cap'[t].pc = "returned" /\ ~cap'[t].skipped)
             => /\ cap'[t].flagged <=> (~cap'[t].s /\ ~cap'[t].c)
                /\ Appended(tracker_logs, tracker_logs')
                     => LET rec == tracker_logs'[Len(tracker_logs')]
                        IN /\ rec.screenshotUrl = cap'[t].s
                           /\ rec.cameraImageUrl = cap'[t].c
                           /\ rec.flagged <=> (~rec.screenshotUrl /\ ~rec.cameraImageUrl)
                           /\ (rec.flagReason # "") <=> rec.flagged
                           /\ (rec.type = "flagged") <=> rec.flagged]_vars

\* C22 happens: a run has just returned with one URL only, not flagged, and
\* its record, unflagged and without a reason, is in the store.
C22_Witness ==
    \E t \in Threads :
        /\ cap[t].pc = "returned" /\ cap[t].why = "done"
        /\ cap[t].s /\ ~cap[t].c /\ ~cap[t].flagged
        /\ tracker_logs # <<>>
        /\ ~tracker_logs[Len(tracker_logs)].flagged
        /\ tracker_logs[Len(tracker_logs)].flagReason = ""
        /\ Made(calls, "save_tracker_log")


\* C23: a run that is past its countdown is left alone by every step of the
\* other threads, a check-out that stops tracking included, and its own next
\* step is the capture: it returns not skipped, with one save_tracker_log call
\* whose record, when the write succeeds, is in the store.
C23_NotCancelable ==
    [][\A t \in Threads :
          cap[t].pc = "capture"
             => \/ cap'[t] = cap[t]
                \/ /\ cap'[t].pc = "returned" /\ cap'[t].why = "done"
                   /\ ~cap'[t].skipped
                   /\ Cardinality(LogWrites(calls')) = 1
                   /\ IF calls'[1].ok
                      THEN /\ Appended(tracker_logs, tracker_logs')
                           /\ tracker_logs'[Len(tracker_logs')].type
                                 \in {cap[t].type, "flagged"}
                      ELSE tracker_logs' = tracker_logs]_vars

\* C23 happens: tracking was stopped by a check-out while a run was past its
\* countdown (the cancel event is still set, so no countdown began after the
\* stop), and the run has returned not skipped with its record written.
C23_Witness ==
    \E t \in Threads :
        /\ cap[t].pc = "returned" /\ cap[t].why = "done" /\ ~cap[t].skipped
        /\ countdown_cancel /\ ~auto_running
        /\ session_id = None
        /\ tracker_logs # <<>>
        /\ Made(calls, "save_tracker_log")


\* The documents that a step completed: the ones a check-out or emergency
\* check-out patch was taken for
CompletedBy(cs) ==
    {cs[n].sid : n \in {m \in DOMAIN cs : /\ cs[m].op \in {"patch_checkout", "patch_emergency"}
                                           /\ cs[m].ok}}

\* C24: a check-out or emergency check-out that completes a session leaves
\* no break interval of the persisted document without an end, and an interval
\* that was open gets the time of the check-out as its end.
C24_NoOpenBreakAfterCheckout ==
    [][\A i \in CompletedBy(calls') :
          /\ OpenIntervals(work_logs'[i]) = {}
          /\ \A n \in OpenIntervals(work_logs[i]) :
                /\ n \in DOMAIN work_logs'[i].breaks
                /\ work_logs'[i].breaks[n].endTime = now]_vars


\* The emergency patch of a step was refused by the store
EmergencyFailed(cs) == \E n \in DOMAIN cs : cs[n].op = "patch_emergency" /\ ~cs[n].ok

\* C25: a step of the exit path whose emergency patch fails is still a
\* complete step of that path: it answers, the session document is left as it
\* was, session_id and check_in_time_ms are cleared, all tracking is stopped and
\* the local server takes no more requests.
C25_EmergencyFailureSwallowed ==
    [][EmergencyFailed(calls')
          => /\ resp'.op \in {"quit", "atexit"} /\ resp'.ok
             /\ phase' # phase /\ phase' # "running"
             /\ ~HttpIdle'
             /\ session_id' = None /\ check_in_time_ms' = None
             /\ work_logs' = work_logs
             /\ ~auto_running' /\ ~remote_running' /\ ~heartbeat_running'
             /\ ~activity_running']_vars

\* C25 happens: the application was quit with a session held, the emergency
\* patch failed, the document is still not completed and the session globals
\* are cleared.
C25_Witness ==
    /\ resp.op = "quit" /\ EmergencyFailed(calls)
    /\ phase = "quit"
    /\ session_id = None /\ check_in_time_ms = None
    /\ \E i \in DOMAIN work_logs : work_logs[i].status = "break"


\* C26: among the store calls of one step, the emergency check-out patch
\* comes before the write of the final activity flush.
C26_ShutdownOrder ==
    [][\A m, n \in DOMAIN calls' :
          (calls'[m].op = "patch_emergency" /\ calls'[n].op = "save_activity_log")
             => m < n]_vars


\* The check_in() call of a step raised
CreateFailed(cs) == \E n \in DOMAIN cs : cs[n].op = "post_work_log" /\ ~cs[n].ok

\* C27: a check-in whose check_in() call fails answers with a failure, adds
\* no document, and leaves the tracker without a session id and with the
\* scheduler, the poller, the heartbeat and the activity tracking not running.
C27_FailedCheckin ==
    [][CreateFailed(calls')
          => /\ resp'.op = "checkin" /\ ~resp'.ok
             /\ work_logs' = work_logs
             /\ session_id' = None
             /\ ~auto_running' /\ ~remote_running' /\ ~heartbeat_running'
             /\ ~activity_running']_vars


\* C28: the check-outs of the local server and of the window do not overlap:
\* a session is completed by one check-out write only, so every check-out
\* patch that the store takes for a session finds it not yet completed.
C28_OneCompletion ==
    [][\A n \in DOMAIN calls' :
          (calls'[n].op = "patch_checkout" /\ calls'[n].ok /\ calls'[n].sid # None)
             => work_logs[calls'[n].sid].status # "completed"]_vars


\* C29: between the handlers, the scheduler, the poller, the heartbeat and the
\* activity tracking all run when the tracker holds a session, and none of
\* them runs when it holds none.
C29_TrackingIffSession ==
    IF session_id # None
    THEN auto_running /\ remote_running /\ heartbeat_running /\ activity_running
    ELSE ~auto_running /\ ~remote_running /\ ~heartbeat_running /\ ~activity_running


\* The sum of the durationMinutes fields of a breaks list
RECURSIVE SumMinutes(_)
SumMinutes(breaks) ==
    IF breaks = <<>> THEN 0
    ELSE (IF Head(breaks).durationMinutes = None THEN 0 ELSE Head(breaks).durationMinutes)
         + SumMinutes(Tail(breaks))

\* C30: a session completed by a check-out has a breakDurationMinutes equal to
\* the sum of the durationMinutes of the intervals in its breaks list.
C30_BreakTotalIsSum ==
    \A i \in Completed(work_logs) :
        ~work_logs[i].flagged
           => work_logs[i].breakDurationMinutes = SumMinutes(work_logs[i].breaks)


\* The closed intervals of a breaks list and the time they span, in microseconds
ClosedIntervals(breaks) == {n \in DOMAIN breaks : breaks[n].endTime # None}
RECURSIVE ClosedSpan(_)
ClosedSpan(breaks) ==
    IF breaks = <<>> THEN 0
    ELSE (IF Head(breaks).endTime # None THEN Head(breaks).endTime - Head(breaks).startTime
          ELSE 0)
         + ClosedSpan(Tail(breaks))

\* C31: a check-in that resumes a stored session sets total_break_sec to the
\* time between start and end summed over the closed intervals of that session,
\* each taken in whole seconds, with nothing for an open interval, and sets
\* break_start_ms to the start of the last interval when that one is open and
\* to None otherwise.
C31_ResumeBreakTotals ==
    [][(resp'.op = "checkin" /\ resp'.resumed)
          => LET breaks == work_logs[resp'.sessionId].breaks
                 lost == ClosedSpan(breaks) - total_break_sec' * 1000 * 1000
             IN /\ session_id' = resp'.sessionId
                /\ lost >= 0
                /\ lost < (Cardinality(ClosedIntervals(breaks)) + 1) * 1000 * 1000
                /\ ClosedIntervals(breaks) = {} => total_break_sec' = 0
                /\ break_start_ms' =
                      IF breaks # <<>> /\ breaks[Len(breaks)].endTime = None
                      THEN breaks[Len(breaks)].startTime \div 1000
                      ELSE None]_vars

\* C31 happens: a check-in resumed a session on break that has a closed break
\* of 90 s and an open one: the total is 90 and the marker is the open start.
C31_Witness ==
    /\ resp.op = "checkin" /\ resp.resumed
    /\ session_id # None
    /\ Len(work_logs[session_id].breaks) = 2
    /\ work_logs[session_id].breaks[1].endTime # None
    /\ work_logs[session_id].breaks[2].endTime = None
    /\ total_break_sec = 90
    /\ break_start_ms = work_logs[session_id].breaks[2].startTime \div 1000


\* The calls of one step with a given name
CallsOf(cs, op) == {n \in DOMAIN cs : cs[n].op = op}

\* C32: a countdown starts at 60 with one pulse; each turn that is not
\* cancelled tells the observer the remaining seconds once and takes one second
\* off, pulses once when 3, 2 or 1 seconds remain and not otherwise, and the
\* turn with 1 second remaining, and no other, ends by telling the observer
\* once that the countdown is done and goes on to the capture, whose step
\* tells the observer nothing.
C32_CountdownNotices ==
    [][\A t \in Threads :
          /\ (cap[t].pc = "entered" /\ cap'[t].pc = "countdown")
                => /\ cap'[t].remaining = 60
                   /\ calls' = <<Notice("_play_beep", None)>>
          /\ (cap[t].pc = "countdown" /\ cap'[t] # cap[t] /\ cap'[t].why # "cancel")
                => /\ cap'[t].remaining = cap[t].remaining - 1
                   /\ calls'[1] = Notice("_on_countdown_tick", cap[t].remaining)
                   /\ CallsOf(calls', "_on_countdown_tick") = {1}
                   /\ Cardinality(CallsOf(calls', "_play_beep"))
                         = (IF cap[t].remaining \in {1, 2, 3} THEN 1 ELSE 0)
                   /\ CallsOf(calls', "_on_countdown_done")
                         = (IF cap[t].remaining = 1 THEN {Len(calls')} ELSE {})
                   /\ cap'[t].pc = (IF cap[t].remaining = 1 THEN "capture" ELSE "countdown")
          /\ (cap[t].pc = "capture" /\ cap'[t] # cap[t])
                => /\ CallsOf(calls', "_on_countdown_done") = {}
                   /\ CallsOf(calls', "_on_countdown_tick") = {}
                   /\ CallsOf(calls', "_play_beep") = {}]_vars

\* C32 happens: the last turn of a countdown that nothing cancelled has just
\* been taken: the observer was told 1, then the pulse, then the completion,
\* and the capture is next.
C32_Witness ==
    \E t \in Threads :
        /\ cap[t].pc = "capture" /\ cap[t].remaining = 0
        /\ ~countdown_cancel
        /\ calls = <<Notice("_on_countdown_tick", 1), Notice("_play_beep", None),
                     Notice("_on_countdown_done", None)>>


\* C33: the record that a capture run writes has as its type the
\* capture_type the run was started with, one of auto, manual and remote.
C33_RecordKind ==
    [][\A t \in Threads :
          (cap[t].pc = "capture" /\ cap'[t].pc = "returned"
           /\ Appended(tracker_logs, tracker_logs'))
             => /\ tracker_logs'[Len(tracker_logs')].type = cap[t].type
                /\ tracker_logs'[Len(tracker_logs')].type \in {"auto", "manual", "remote"}]_vars


\* C34: when the caller of a capture that was not skipped has finished with it,
\* on the timer thread, the poller thread or the server thread, and auto-capture
\* is running, the scheduler's timer is pending with a delay of at least
\* 120 s + 10 min and no other timer is pending.
C34_CooldownAfterAnyCapture ==
    [][\A t \in Threads :
          (/\ cap[t].pc = "returned" /\ cap[t].why = "done" /\ ~cap[t].skipped
           /\ cap'[t].pc = "none"
           /\ auto_running /\ auto_running')
             => /\ auto_timer' # None
                /\ \A k \in TimerIds : timers'[k].st = "pending" <=> k = auto_timer'
                /\ timers'[auto_timer'].delay >= (120 + 10 * 60) * 1000]_vars


\* C35: while tracking keeps running, a pending command leaves the pending
\* set only when the capture made for it was executed: the poller turn that
\* completes a command follows a perform_capture run of that turn that was not
\* skipped, so a command whose run was skipped is still there for a later turn.
C35_PendingUntilExecuted ==
    [][(remote_running /\ auto_running /\ remote_running' /\ auto_running')
          => \A cmd \in commands \ commands' :
                \E j \in LoopIds :
                    /\ pollers[j].pc = "capture" /\ pollers[j].arg = cmd
                    /\ cap[<<"poller", j>>].pc = "returned"
                    /\ ~cap[<<"poller", j>>].skipped
                    /\ cap[<<"poller", j>>].why = "done"]_vars


\* The loop threads of one kind that have not ended
LiveLoops(f) == LoopIds \ DeadIds(f)

\* C36: at most one thread of the command poller, at most one of the
\* heartbeat and at most one of the activity flush is alive.
C36_OneLoopEach ==
    /\ Cardinality(LiveLoops(pollers)) <= 1
    /\ Cardinality(LiveLoops(hb)) <= 1
    /\ Cardinality(LiveLoops(flushers)) <= 1


\* C37: every pending auto-capture timer is the one that _auto_timer refers
\* to, so at most one is pending and stop_auto_capture can cancel it.
C37_OnePendingTimer ==
    \A k \in TimerIds : timers[k].st = "pending" => k = auto_timer


\* The perform_capture runs that have set the flag and not yet returned
Holding == {t \in Threads : cap[t].pc \in {"entered", "countdown", "capture"}}

\* C38: a run that has set _capture_in_progress leaves it false when it
\* returns, on each of its returns (no user id, cancelled countdown, capture
\* made); and a step that takes the flag from true to false is a stop of
\* tracking or the return of the run that holds the flag, no other run
\* holding it.
C38_FlagReleasedByOwner ==
    [][/\ \A t \in Holding : cap'[t].pc = "returned" => ~capture_in_progress'
       /\ (capture_in_progress /\ ~capture_in_progress')
             => \/ countdown_cancel' /\ ~auto_running' /\ ~remote_running'
                \/ \E t \in Holding : cap'[t].pc = "returned" /\ Holding = {t}]_vars


\* C39: capture_count goes up only when the caller of a capture run takes a
\* result that is not skipped and comes from a run that made its capture (not
\* from a return for a missing user id), and then by one; a successful new
\* check-in sets it to zero and no other step changes it.
C39_CountsExecutedCaptures ==
    [][capture_count' # capture_count
          => \/ /\ resp'.op = "checkin" /\ resp'.ok /\ ~resp'.resumed
                /\ capture_count' = 0
             \/ /\ capture_count' = capture_count + 1
                /\ \E t \in Threads :
                      /\ cap[t].pc = "returned" /\ cap'[t].pc = "none"
                      /\ ~cap[t].skipped /\ cap[t].why = "done"]_vars


\* C40: the emergency check-out is written at most once for a session and
\* never after a check-out of that session succeeded: every emergency patch
\* that cleanup issues is for a session whose work log is not yet completed,
\* by a check-out or by an earlier emergency patch.
C40_EmergencyOnOpenSession ==
    [][\A n \in DOMAIN calls' :
          calls'[n].op = "patch_emergency"
             => work_logs[calls'[n].sid].status # "completed"]_vars

====
